---- MODULE Spec2Model ----
(***************************************************************************)
(* Model of src/cvd_risk_app.py: the LDL projection, the SMART 10-year     *)
(* risk, the 5-year and lifetime conversions, and the Streamlit script     *)
(* that reruns top to bottom after every widget change.                    *)
(*                                                                         *)
(* Number representation                                                   *)
(*   - risk percentages, and every input the form steps by 0.1, are        *)
(*     integers counting tenths (18.6 % is 186, LDL 3.0 mmol/L is 30);     *)
(*   - an LDL value is an exact fraction <<numerator, denominator>>;       *)
(*   - math.exp, math.log and ** are computed in fixed point with          *)
(*     FixScale units per 1.0; every product is split so that it stays     *)
(*     inside 32-bit integers.  The fixed-point value is within 1e-6 of    *)
(*     the real-valued one, so a rounded risk can differ from the float    *)
(*     result by one tenth only when the exact value lies within 0.001     *)
(*     of a rounding tie.                                                  *)
(*   - lines 124-125 of the source carry backslash-escaped quotes          *)
(*     (\"Ezetimibe 10 mg\"); they are read as the string literals they    *)
(*     escape.                                                             *)
(*   - the value False that `pre_ez and "Ezetimibe 10 mg"` yields for an   *)
(*     unticked box is the list entry "False": like Python's False it is   *)
(*     no key of the efficacy table.                                       *)
(***************************************************************************)
EXTENDS Integers, Sequences, FiniteSets, TLC

VARIABLES form, out, call, ret

vars == <<form, out, call, ret>>

(***************************************************************************)
(* Bounds of the model                                                     *)
(***************************************************************************)
MaxLen == 2      \* longest pre_list + new_list handed to a direct call
Margin == 3      \* how far a direct call's age / r10 / LDL leaves its range

(***************************************************************************)
(* Fixed-point arithmetic standing for Python floats                       *)
(***************************************************************************)
FixScale == 10^8
FixHalf  == 10^4
LN2      == 69314718        \* ln 2
NegLn09  == 10536052        \* -ln 0.900

Min(a, b) == IF a <= b THEN a ELSE b
Max(a, b) == IF a >= b THEN a ELSE b

\* a * b / FixScale for a, b >= 0, without leaving 32 bits
MulFix(a, b) ==
    LET a1 == a \div FixHalf  a0 == a % FixHalf
        b1 == b \div FixHalf  b0 == b % FixHalf
    IN  a1 * b1 + ((a1 * b0 + a0 * b1 + (a0 * b0) \div FixHalf) \div FixHalf)

\* a * 10^n / b by long division, 0 <= a, 0 < b
RECURSIVE LongDiv(_, _, _, _)
LongDiv(q, r, b, n) ==
    IF n = 0 THEN q
    ELSE LongDiv(q * 10 + (r * 10) \div b, (r * 10) % b, b, n - 1)

DivFix(a, b) == LongDiv(a \div b, a % b, b, 8)

\* sum of the Taylor series of exp from the term t (= r^(n-1)/(n-1)!) on
RECURSIVE ExpSeries(_, _, _)
ExpSeries(t, r, n) ==
    IF t = 0 THEN 0 ELSE t + ExpSeries(MulFix(t, r) \div n, r, n + 1)

\* math.exp(x) = m * 2^k with m in [1, 2)
FixExp(x) == [m |-> ExpSeries(FixScale, x % LN2, 1), k |-> x \div LN2]

\* m * 2^k as one fixed-point number (k small enough to fit)
Scale2(m, k) ==
    IF k >= 0 THEN m * (2^k)
    ELSE IF k < -30 THEN 0 ELSE m \div (2^(0 - k))

\* sum of u^n/n over odd n, from the term t = u^n on
RECURSIVE LnSeries(_, _, _)
LnSeries(t, u2, n) ==
    IF t = 0 THEN 0 ELSE (t \div n) + LnSeries(MulFix(t, u2), u2, n + 2)

\* ln m for m in [1, 2): 2 * atanh((m - 1)/(m + 1))
LnMant(m) ==
    LET u == DivFix((m - FixScale) \div 2, (m + FixScale) \div 2)
    IN  2 * LnSeries(u, MulFix(u, u), 1)

\* math.log(v) for v > 0
RECURSIVE FixLn(_)
FixLn(v) ==
    IF v >= 2 * FixScale THEN LN2 + FixLn(v \div 2)
    ELSE IF v < FixScale THEN FixLn(2 * v) - LN2
    ELSE LnMant(v)

\* round(x * 100, 1) of a fixed-point probability x, in tenths of a percent
RoundTenth(x) == (x + 50000) \div 100000

\* round(n / d, 0) for n >= 0, d > 0, ties to even as Python's round
RoundDiv(n, d) ==
    LET q == n \div d
        r == n % d
    IN  IF 2 * r > d THEN q + 1
        ELSE IF 2 * r < d THEN q
        ELSE IF q % 2 = 0 THEN q ELSE q + 1

(***************************************************************************)
(* Exact fractions for LDL values                                          *)
(***************************************************************************)
RECURSIVE GCD(_, _)
GCD(a, b) == IF b = 0 THEN a ELSE GCD(b, a % b)

Frac(n, d) == LET g == GCD(n, d) IN <<n \div g, d \div g>>

FracMul(x, y) == LET a == Frac(x[1], y[2])
                     b == Frac(y[1], x[2])
                 IN  Frac(a[1] * b[1], a[2] * b[2])

\* x <= y for fractions with positive denominators and x, y >= 0,
\* by comparing continued-fraction expansions (no cross product)
RECURSIVE FracLeq(_, _)
FracLeq(x, y) ==
    LET qx == x[1] \div x[2]  rx == x[1] % x[2]
        qy == y[1] \div y[2]  ry == y[1] % y[2]
    IN  IF qx # qy THEN qx < qy
        ELSE IF rx = 0 THEN TRUE
        ELSE IF ry = 0 THEN FALSE
        ELSE FracLeq(<<y[2], ry>>, <<x[2], rx>>)

FracMax(x, y) == IF FracLeq(y, x) THEN x ELSE y

Tenths(n) == Frac(n, 10)

(***************************************************************************)
(* Utility function: calculate_ldl_projection                              *)
(***************************************************************************)
\* the efficacy map E, in percent
E == [d \in {"Atorvastatin 80 mg", "Rosuvastatin 20 mg", "Ezetimibe 10 mg",
             "Bempedoic acid", "PCSK9 inhibitor", "Inclisiran"} |->
        CASE d = "Atorvastatin 80 mg" -> 50
          [] d = "Rosuvastatin 20 mg" -> 55
          [] d = "Ezetimibe 10 mg"    -> 20
          [] d = "Bempedoic acid"     -> 18
          [] d = "PCSK9 inhibitor"    -> 60
          [] d = "Inclisiran"         -> 55]

\* floor of the projection, 0.5 mmol/L
LdlFloor == Tenths(5)

\* one pass of the loop body: if drug in E: ldl *= (1 - E[drug])
ApplyDrug(ldl, drug) ==
    IF drug \in DOMAIN E THEN FracMul(ldl, Frac(100 - E[drug], 100)) ELSE ldl

\* for drug in drugs: ...
RECURSIVE LdlLoop(_, _)
LdlLoop(ldl, drugs) ==
    IF drugs = <<>> THEN ldl
    ELSE LdlLoop(ApplyDrug(ldl, Head(drugs)), Tail(drugs))

\* variant: the floor of 0.5 is left out
calculate_ldl_projection_nofloor(baseline_ldl, pre_list, new_list) ==
    LdlLoop(Tenths(baseline_ldl), pre_list \o new_list)

\* variant: new drugs count at half their efficacy
RECURSIVE LdlLoopHalf(_, _)
LdlLoopHalf(ldl, drugs) ==
    IF drugs = <<>> THEN ldl
    ELSE LdlLoopHalf(IF Head(drugs) \in DOMAIN E
                     THEN FracMul(ldl, Frac(200 - E[Head(drugs)], 200))
                     ELSE ldl,
                     Tail(drugs))

calculate_ldl_projection_half(baseline_ldl, pre_list, new_list) ==
    FracMax(LdlLoopHalf(LdlLoop(Tenths(baseline_ldl), pre_list), new_list),
            LdlFloor)

\* baseline_ldl in tenths of mmol/L; the result is an exact fraction
calculate_ldl_projection(baseline_ldl, pre_list, new_list) ==
    FracMax(LdlLoop(Tenths(baseline_ldl), pre_list \o new_list), LdlFloor)

(***************************************************************************)
(* Risk functions.  A result is [err, val]: err is "none" or the name of   *)
(* the exception raised, val the returned percentage in tenths.            *)
(***************************************************************************)
Ok(v)     == [err |-> "none", val |-> v]
Raise(e)  == [err |-> e, val |-> 0]

MaxRisk == 950          \* the cap 95.0

\* 1 - 0.900 ** y for y = m * 2^k, as a fixed-point probability.  From
\* k = 7 on, 0.900 ** y is below 2e-6 and leaves the fixed-point range of
\* the exponent; raw is then far above the cap either way.
RawRisk(y) ==
    LET mz == MulFix(y.m, NegLn09)
        e  == FixExp(0 - Scale2(mz, y.k))
    IN  IF y.k >= 7 THEN FixScale
        ELSE FixScale - Scale2(e.m, e.k)

\* variant: the result is not capped at 95.0
estimate_10y_risk_nocap(age, sex, sbp, tc, hdl, smoker, diabetes, egfr, crp, vasc) ==
    LET sex_v   == IF sex = "Male" THEN 1 ELSE 0
        smoke_v == IF smoker THEN 1 ELSE 0
        dm_v    == IF diabetes THEN 1 ELSE 0
        crp_l   == FixLn((crp + 10) * 10000000)
        lp      == 6400000 * age + 34000000 * sex_v + 2000000 * sbp
                   + 2500000 * tc - 2500000 * hdl + 44000000 * smoke_v
                   + 51000000 * dm_v - 2000000 * egfr + crp_l \div 4
                   + 40000000 * vasc
        raw     == RawRisk(FixExp(lp - 580000000))
    IN  IF crp + 10 <= 0 THEN Raise("ValueError")
        ELSE Ok(RoundTenth(raw))

\* tc, hdl, crp in tenths; sex is "Male" or "Female"; smoker, diabetes
\* are booleans; vasc is the count of ticked vascular boxes
estimate_10y_risk(age, sex, sbp, tc, hdl, smoker, diabetes, egfr, crp, vasc) ==
    LET sex_v   == IF sex = "Male" THEN 1 ELSE 0
        smoke_v == IF smoker THEN 1 ELSE 0
        dm_v    == IF diabetes THEN 1 ELSE 0
        crp_l   == FixLn((crp + 10) * 10000000)
        lp      == 6400000 * age + 34000000 * sex_v + 2000000 * sbp
                   + 2500000 * tc - 2500000 * hdl + 44000000 * smoke_v
                   + 51000000 * dm_v - 2000000 * egfr + crp_l \div 4
                   + 40000000 * vasc
        raw     == RawRisk(FixExp(lp - 580000000))
    IN  IF crp + 10 <= 0 THEN Raise("ValueError")    \* math.log domain error
        ELSE Ok(RoundTenth(Min(raw, MaxRisk * 100000)))

\* the largest n in lo..hi with (2n-1)^2 < 4x, by bisection
RECURSIVE SqrtSearch(_, _, _)
SqrtSearch(lo, hi, x) ==
    IF lo = hi THEN lo
    ELSE LET mid == (lo + hi + 1) \div 2
         IN  IF (2*mid - 1) * (2*mid - 1) < 4 * x
             THEN SqrtSearch(mid, hi, x)
             ELSE SqrtSearch(lo, mid - 1, x)

\* the integer nearest to sqrt(x), 0 <= x < 2^22; 4x is no odd square, so
\* there is no tie
RoundSqrt(x) == SqrtSearch(0, 2048, x)

\* variant: the 5-year survival is returned in place of the 5-year risk
convert_5yr_survival(r10) ==
    LET p  == Min(r10, MaxRisk)
    IN  Ok(Min(RoundSqrt(1000 * (1000 - p)), MaxRisk))

\* r10 in tenths of a percent.  (1-p)**0.5 * 1000 is sqrt(1000 * (1000 - r)),
\* taken exactly.
convert_5yr(r10) ==
    LET p  == Min(r10, MaxRisk)
        p5 == 1000 - RoundSqrt(1000 * (1000 - p))
    IN  Ok(Min(p5, MaxRisk))

\* years * x / 10 without leaving 32 bits
TimesYearsOver10(x, years) ==
    (x \div 10) * years + ((x % 10) * years) \div 10

\* variant: years = 85 - age, not floored at 0
estimate_lifetime_risk_nomax(age, r10) ==
    LET years  == 85 - age
        p10    == Min(r10, MaxRisk)
        lnsurv == FixLn((1000 - p10) * 100000)
        e      == FixExp(TimesYearsOver10(lnsurv, years))
        lt     == FixScale - Scale2(e.m, e.k)
    IN  Ok(RoundTenth(Min(lt, MaxRisk * 100000)))

estimate_lifetime_risk(age, r10) ==
    LET years  == Max(85 - age, 0)
        p10    == Min(r10, MaxRisk)
        \* (1-annual)**years = exp(years * ln(1 - p10) / 10)
        lnsurv == FixLn((1000 - p10) * 100000)
        e      == FixExp(TimesYearsOver10(lnsurv, years))
        lt     == FixScale - Scale2(e.m, e.k)
    IN  Ok(RoundTenth(Min(lt, MaxRisk * 100000)))

\* lines 140-142: arr10 = 5.2; rrr10 = round(arr10 / risk10 * 100, 1)
arr10 == 52

rrr10(risk10) ==
    IF risk10 = 0 THEN Raise("ZeroDivisionError")
    ELSE Ok(RoundDiv(arr10 * 1000, risk10))

(***************************************************************************)
(* Input ranges of the form (sidebar and Labs tab)                         *)
(***************************************************************************)
AgeLo == 30
AgeHi == 90
LdlLo == 5
LdlHi == 60
CrpLo == 1
CrpHi == 200

StatinChoices == {"None", "Atorvastatin 80 mg", "Rosuvastatin 20 mg"}

(***************************************************************************)
(* Direct calls of the core functions: Init draws the arguments, the Call  *)
(* actions apply the function.                                             *)
(***************************************************************************)
\* list entries: the keys of E, the "None" statin choice, the False of an
\* unticked box, and a name the table does not know
Entries == DOMAIN E \cup {"None", "False", "Aspirin"}

SeqsUpTo(S, n) == UNION {[1..k -> S] : k \in 0..n}

LdlInputs  == (LdlLo - Margin)..(LdlHi + Margin)
AgeInputs  == (AgeLo - Margin)..(AgeHi + Margin)
R10Inputs  == (0 - Margin)..(MaxRisk + Margin)

NoCall == [fn |-> "none", baseline_ldl |-> 0, pre_list |-> <<>>,
           new_list |-> <<>>, age |-> 0, r10 |-> 0, sex |-> "Female",
           sbp |-> 0, tc |-> 0, hdl |-> 0, smoker |-> FALSE,
           diabetes |-> FALSE, egfr |-> 0, crp |-> 0, vasc |-> 0]

\* the call with baseline b and the list l split after its first i entries
LdlCall(b, l, i) ==
    [NoCall EXCEPT !.fn = "calculate_ldl_projection",
                   !.baseline_ldl = b,
                   !.pre_list = SubSeq(l, 1, i),
                   !.new_list = SubSeq(l, i + 1, Len(l))]

Convert5yrCalls ==
    {[NoCall EXCEPT !.fn = "convert_5yr", !.r10 = r] : r \in R10Inputs}

LifetimeCalls ==
    {[NoCall EXCEPT !.fn = "estimate_lifetime_risk", !.age = a, !.r10 = r]
       : <<a, r>> \in AgeInputs \X R10Inputs}

\* out of range at both ends, the range's ends, and the form's defaults
Estimate10yCalls ==
    {[NoCall EXCEPT !.fn = "estimate_10y_risk", !.age = p[1], !.sex = p[2],
                    !.sbp = p[3], !.tc = p[4], !.hdl = p[5], !.smoker = p[6],
                    !.diabetes = p[7], !.egfr = p[8], !.crp = p[9],
                    !.vasc = p[10]]
       : p \in {AgeLo - Margin, AgeLo, 60, AgeHi, AgeHi + Margin}
               \X {"Male", "Female"} \X {90, 140, 200} \X {20, 52, 100}
               \X {5, 13, 30} \X BOOLEAN \X BOOLEAN \X {15, 90, 120}
               \X {0 - 10 - Margin, CrpLo, 25, CrpHi} \X {0, 3}}

Rrr10Calls ==
    {[NoCall EXCEPT !.fn = "rrr10", !.r10 = r] : r \in 0..MaxRisk}

NoRet == [done |-> FALSE, err |-> "none", val |-> 0, ldl |-> <<0, 1>>]

Returned(r) == [done |-> TRUE, err |-> r.err, val |-> r.val, ldl |-> <<0, 1>>]

CallLdl ==
    /\ call.fn = "calculate_ldl_projection" /\ ~ret.done
    /\ ret' = [done |-> TRUE, err |-> "none", val |-> 0,
               ldl |-> calculate_ldl_projection(call.baseline_ldl,
                                                call.pre_list, call.new_list)]
    /\ UNCHANGED <<form, out, call>>

CallConvert5yr ==
    /\ call.fn = "convert_5yr" /\ ~ret.done
    /\ ret' = Returned(convert_5yr(call.r10))
    /\ UNCHANGED <<form, out, call>>

CallLifetime ==
    /\ call.fn = "estimate_lifetime_risk" /\ ~ret.done
    /\ ret' = Returned(estimate_lifetime_risk(call.age, call.r10))
    /\ UNCHANGED <<form, out, call>>

CallEstimate10y ==
    /\ call.fn = "estimate_10y_risk" /\ ~ret.done
    /\ ret' = Returned(estimate_10y_risk(call.age, call.sex, call.sbp,
                           call.tc, call.hdl, call.smoker, call.diabetes,
                           call.egfr, call.crp, call.vasc))
    /\ UNCHANGED <<form, out, call>>

CallRrr10 ==
    /\ call.fn = "rrr10" /\ ~ret.done
    /\ ret' = Returned(rrr10(call.r10))
    /\ UNCHANGED <<form, out, call>>

(***************************************************************************)
(* The Streamlit script.  form holds the widget values of the session,     *)
(* out what one run of the script computes from them.  Every widget        *)
(* change reruns the whole script.                                         *)
(***************************************************************************)
\* the widgets' initial values (lines 87-125, 130)
DefaultForm ==
    [age |-> 60, sex |-> "Male", smoker |-> FALSE, diabetes |-> FALSE,
     egfr |-> 90, vasc1 |-> FALSE, vasc2 |-> FALSE, vasc3 |-> FALSE,
     tc |-> 52, hdl_v |-> 13, ldl0 |-> 30, crp |-> 25, sbp |-> 140,
     pre_stat |-> "None", pre_ez |-> FALSE, pre_bemp |-> FALSE,
     new_stat |-> "None", new_ez |-> FALSE, new_bemp |-> FALSE,
     pcsk9 |-> FALSE, inclis |-> FALSE]

\* Python's `ticked and "name"`: the name if ticked, else False
AndName(ticked, name) == IF ticked THEN name ELSE "False"

\* the list line 124 passes as pre_list
PreList(f) == <<f.pre_stat, AndName(f.pre_ez, "Ezetimibe 10 mg"),
                AndName(f.pre_bemp, "Bempedoic acid")>>

\* the list line 125 passes as new_list
NewList(f) == <<f.new_stat, AndName(f.new_ez, "Ezetimibe 10 mg"),
                AndName(f.new_bemp, "Bempedoic acid")>>

\* the threshold 1.8 mmol/L of lines 124-125
LdlGate == Tenths(18)

\* variant: the PCSK9 gate looks at the therapy as a whole
Pcsk9Disabled_total(f) ==
    FracLeq(calculate_ldl_projection(f.ldl0, PreList(f), NewList(f)), LdlGate)

\* disabled= of the "PCSK9 inhibitor" checkbox
Pcsk9Disabled(f) ==
    FracLeq(calculate_ldl_projection(f.ldl0, PreList(f), <<>>), LdlGate)

\* disabled= of the "Inclisiran" checkbox
InclisDisabled(f) ==
    FracLeq(calculate_ldl_projection(f.ldl0, <<>>, NewList(f)), LdlGate)

\* the drugs the form puts in the "already on" set and in the "newly
\* added/intensified" set
PreSet(f) == {PreList(f)[i] : i \in 1..3} \cap DOMAIN E
NewSet(f) == {NewList(f)[i] : i \in 1..3} \cap DOMAIN E

BoolInt(b) == IF b THEN 1 ELSE 0

\* vasc = sum([vasc1, vasc2, vasc3])
Vasc(f) == BoolInt(f.vasc1) + BoolInt(f.vasc2) + BoolInt(f.vasc3)

\* one run of the script over the widget values f
Run(f) ==
    LET r10 == estimate_10y_risk(f.age, f.sex, f.sbp, f.tc, f.hdl_v, f.smoker,
                                 f.diabetes, f.egfr, f.crp, Vasc(f))
        r5  == convert_5yr(r10.val)
        rLT == estimate_lifetime_risk(f.age, r10.val)
        rrr == rrr10(r10.val)
    IN  [pcsk9_disabled  |-> Pcsk9Disabled(f),
         inclis_disabled |-> InclisDisabled(f),
         risk10 |-> r10.val, risk5 |-> r5.val, riskLT |-> rLT.val,
         arr10 |-> arr10, rrr10 |-> rrr.val,
         error |-> IF r10.err # "none" THEN r10.err ELSE rrr.err]

\* the user sets widget w to v; the script reruns
SetWidget(w, v) ==
    /\ form[w] # v
    /\ form' = [form EXCEPT ![w] = v]
    /\ out' = Run(form')
    /\ UNCHANGED <<call, ret>>

\* values the model lets the user give each widget: the default, ends of
\* the range, and for the baseline LDL the values next to each point where
\* a projection crosses 1.8
AgeChoices  == {AgeLo, 60, AgeHi}
SbpChoices  == {90, 140, 200}
TcChoices   == {20, 52}
HdlChoices  == {13, 30}
EgfrChoices == {90, 120}
CrpChoices  == {CrpLo, 25}
Ldl0Choices == {LdlLo, 18, 19, 22, 23, 30, 36, 37, 41, 46, LdlHi}

SetAge      == \E v \in AgeChoices : SetWidget("age", v)
SetSex      == \E v \in {"Male", "Female"} : SetWidget("sex", v)
ToggleSmoker   == SetWidget("smoker", ~form.smoker)
ToggleDiabetes == SetWidget("diabetes", ~form.diabetes)
SetEgfr     == \E v \in EgfrChoices : SetWidget("egfr", v)
ToggleVasc  == \E w \in {"vasc1", "vasc2", "vasc3"} : SetWidget(w, ~form[w])
SetTc       == \E v \in TcChoices : SetWidget("tc", v)
SetHdl      == \E v \in HdlChoices : SetWidget("hdl_v", v)
SetCrp      == \E v \in CrpChoices : SetWidget("crp", v)
SetSbp      == \E v \in SbpChoices : SetWidget("sbp", v)

SetLdl0     == \E v \in Ldl0Choices : SetWidget("ldl0", v)
SetPreStat  == \E v \in StatinChoices : SetWidget("pre_stat", v)
TogglePreEz    == SetWidget("pre_ez", ~form.pre_ez)
TogglePreBemp  == SetWidget("pre_bemp", ~form.pre_bemp)
SetNewStat  == \E v \in StatinChoices : SetWidget("new_stat", v)
ToggleNewEz    == SetWidget("new_ez", ~form.new_ez)
ToggleNewBemp  == SetWidget("new_bemp", ~form.new_bemp)
\* a disabled checkbox cannot be clicked; it keeps the value it has
TogglePcsk9 == ~out.pcsk9_disabled /\ SetWidget("pcsk9", ~form.pcsk9)
ToggleInclis == ~out.inclis_disabled /\ SetWidget("inclis", ~form.inclis)

(***************************************************************************)
(* Specifications                                                          *)
(***************************************************************************)
InitForm ==
    /\ form = DefaultForm
    /\ out = Run(DefaultForm)
    /\ call = NoCall
    /\ ret = NoRet

\* the user works on the Therapies tab and the baseline LDL
NextTherapy ==
    \/ SetLdl0
    \/ SetPreStat
    \/ TogglePreEz
    \/ TogglePreBemp
    \/ SetNewStat
    \/ ToggleNewEz
    \/ ToggleNewBemp
    \/ TogglePcsk9
    \/ ToggleInclis

SpecTherapy == InitForm /\ [][NextTherapy]_vars

\* the user works on the patient profile
NextRisk ==
    \/ SetAge
    \/ SetSex
    \/ ToggleSmoker
    \/ ToggleDiabetes
    \/ SetEgfr
    \/ ToggleVasc
    \/ SetTc
    \/ SetHdl
    \/ SetCrp
    \/ SetSbp

SpecRisk == InitForm /\ [][NextRisk]_vars

\* direct calls of calculate_ldl_projection
InitLdl ==
    /\ form = DefaultForm
    /\ out = Run(DefaultForm)
    /\ \E b \in LdlInputs, l \in SeqsUpTo(Entries, MaxLen) :
           \E i \in 0..Len(l) : call = LdlCall(b, l, i)
    /\ ret = NoRet

SpecLdl == InitLdl /\ [][CallLdl]_vars

\* direct calls of the risk functions and of the RRR expression
InitCore ==
    /\ form = DefaultForm
    /\ out = Run(DefaultForm)
    /\ \/ call \in Convert5yrCalls
       \/ call \in LifetimeCalls
       \/ call \in Estimate10yCalls
       \/ call \in Rrr10Calls
    /\ ret = NoRet

NextCore ==
    \/ CallConvert5yr
    \/ CallLifetime
    \/ CallEstimate10y
    \/ CallRrr10

SpecCore == InitCore /\ [][NextCore]_vars

(***************************************************************************)
(* Properties                                                              *)
(***************************************************************************)
InLdlRange(b) == b \in LdlLo..LdlHi
InAgeRange(a) == a \in AgeLo..AgeHi
InRiskRange(r) == r \in 0..MaxRisk

LdlReturned == call.fn = "calculate_ldl_projection" /\ ret.done

\* C1: for a baseline LDL within [0.5, 6.0] and any pre and new lists, the
\* projection returned is at least 0.5 and at most the baseline.
C1_ProjectionWithinBounds ==
    (LdlReturned /\ InLdlRange(call.baseline_ldl))
        => /\ FracLeq(LdlFloor, ret.ldl)
           /\ FracLeq(ret.ldl, Tenths(call.baseline_ldl))

\* a repeated drug in both lists drove the projection down to the floor
C1_Witness ==
    /\ LdlReturned /\ InLdlRange(call.baseline_ldl)
    /\ call.pre_list # <<>> /\ call.new_list # <<>>
    /\ Head(call.pre_list) = Head(call.new_list)
    /\ Head(call.pre_list) \in DOMAIN E
    /\ call.baseline_ldl > LdlLo
    /\ ret.ldl = LdlFloor

\* number of entries of l equal to d
Count(d, l) == Cardinality({i \in DOMAIN l : l[i] = d})

RECURSIVE FracPow(_, _)
FracPow(x, n) == IF n = 0 THEN <<1, 1>> ELSE FracMul(x, FracPow(x, n - 1))

\* baseline * product over the table's drugs d of (1 - E[d]) ^ (number of
\* entries equal to d), floored at 0.5
ExpectedLdl(baseline, entries) ==
    LET k(d) == FracPow(Frac(100 - E[d], 100), Count(d, entries))
        stat == FracMul(k("Atorvastatin 80 mg"), k("Rosuvastatin 20 mg"))
        oral == FracMul(k("Ezetimibe 10 mg"), k("Bempedoic acid"))
        inj  == FracMul(k("PCSK9 inhibitor"), k("Inclisiran"))
        all  == FracMul(Tenths(baseline), FracMul(stat, FracMul(oral, inj)))
    IN  IF FracLeq(LdlFloor, all) THEN all ELSE LdlFloor

\* C2: the projection is max(0.5, baseline * product of (1 - efficacy) over
\* the entries of pre followed by new that are keys of the table), new drugs
\* at full efficacy (3.5 with new Atorvastatin 80 mg gives 1.75); entries
\* that are no key change nothing and raise no error.
C2_FullEfficacyProduct ==
    LdlReturned
        => /\ ret.err = "none"
           /\ ret.ldl = ExpectedLdl(call.baseline_ldl,
                                    call.pre_list \o call.new_list)
           /\ (call.baseline_ldl = 35 /\ call.pre_list = <<>>
               /\ call.new_list = <<"Atorvastatin 80 mg">>)
                  => ret.ldl = <<7, 4>>

\* a new drug after an entry that is no key, result above the floor
C2_Witness ==
    /\ LdlReturned
    /\ call.baseline_ldl = 35
    /\ call.pre_list = <<"Aspirin">>
    /\ call.new_list = <<"Atorvastatin 80 mg">>
    /\ ret.ldl = <<7, 4>>

\* C3: in every state of the therapy form no drug is both in the "already
\* on" set and in the "newly added/intensified" set.
C3_SetsDisjoint == PreSet(form) \cap NewSet(form) = {}

Rrr10Returned == call.fn = "rrr10" /\ ret.done

C5_ArrWithinBaseline ==
    /\ out.risk10 - out.arr10 \in 0..1000
    /\ out.rrr10 <= 1000

OutOfBounds(c) ==
    CASE c.fn = "convert_5yr" -> ~InRiskRange(c.r10)
      [] c.fn = "estimate_lifetime_risk" ->
             ~InAgeRange(c.age) \/ ~InRiskRange(c.r10)
      [] c.fn = "estimate_10y_risk" ->
             ~InAgeRange(c.age) \/ c.crp \notin CrpLo..CrpHi
      [] OTHER -> FALSE

\* C6: a core function called with an input outside its clinical bounds
\* fails with an error and returns no result.
C6_OutOfRangeFails ==
    (ret.done /\ OutOfBounds(call)) => ret.err # "none"

Convert5yrReturned == call.fn = "convert_5yr" /\ ret.done

\* C7: for every 10-year risk r10 >= 0, convert_5yr(r10) <= r10.
C7_FiveYearAtMostTenYear ==
    (Convert5yrReturned /\ call.r10 >= 0) => ret.val <= call.r10

\* the smallest positive risk, where rounding makes the two equal
C7_Witness ==
    /\ Convert5yrReturned
    /\ call.r10 = 1
    /\ ret.val = 1

LifetimeReturned == call.fn = "estimate_lifetime_risk" /\ ret.done

\* C8: for a fixed 10-year risk in [0,95] the lifetime risk does not grow
\* with age (checked from each age to the next, every age being drawn), and
\* it is 0 from age 85 on.
C8_LifetimeNonIncreasing ==
    (LifetimeReturned /\ InRiskRange(call.r10))
        => /\ estimate_lifetime_risk(call.age + 1, call.r10).val <= ret.val
           /\ call.age >= 85 => ret.val = 0

\* the last year before 85: a positive risk that drops to 0 one year on
C8_Witness ==
    /\ LifetimeReturned
    /\ call.age = 84 /\ call.r10 = 500
    /\ ret.val > 0
    /\ estimate_lifetime_risk(85, call.r10).val = 0

\* C9: the three risks of one run over a profile within the input bounds
\* are each a percentage in [0, 95] (values count tenths).
C9_RisksWithinCap ==
    /\ out.risk10 \in 0..MaxRisk
    /\ out.risk5 \in 0..MaxRisk
    /\ out.riskLT \in 0..MaxRisk

\* a profile whose uncapped 10-year risk is above 95
C9_Witness ==
    /\ form.age = AgeHi /\ form.smoker /\ form.diabetes
    /\ out.risk10 = MaxRisk
    /\ out.risk5 < MaxRisk
    /\ out.riskLT = 0

\* 1 - E[d] in percent, 100 for an entry that is no key
Keep(d) == IF d \in DOMAIN E THEN 100 - E[d] ELSE 100

\* baseline * the three factors of a list is above 1.8 (the floor of 0.5
\* is below the gate, so it does not matter here)
AboveGate(ldl0, l) == ldl0 * Keep(l[1]) * Keep(l[2]) * Keep(l[3]) > 18 * 1000000

\* C10 as stated: PCSK9 inhibitor is selected only while the projection
\* under the pre-admission therapy is above 1.8, Inclisiran only while the
\* projection under the new therapy is above 1.8.
C10_SelectedOnlyAboveGate ==
    /\ form.pcsk9 => AboveGate(form.ldl0, PreList(form))
    /\ form.inclis => AboveGate(form.ldl0, NewList(form))

C10_GateMatchesProjection ==
    /\ out.pcsk9_disabled <=> ~AboveGate(form.ldl0, PreList(form))
    /\ out.inclis_disabled <=> ~AboveGate(form.ldl0, NewList(form))

C10_ChangedOnlyAboveGate ==
    /\ form'.pcsk9 # form.pcsk9
           => (AboveGate(form.ldl0, PreList(form))
               /\ AboveGate(form'.ldl0, PreList(form')))
    /\ form'.inclis # form.inclis
           => (AboveGate(form.ldl0, NewList(form))
               /\ AboveGate(form'.ldl0, NewList(form')))

\* C10 amended: each checkbox is disabled exactly when its projection is
\* <= 1.8, and an option changes its value only in a step whose projection
\* is above 1.8 before and after; a selected option can stay selected after
\* its projection has dropped to 1.8 or below.
C10_GateOnlyGuardsChanges ==
    []C10_GateMatchesProjection /\ [][C10_ChangedOnlyAboveGate]_vars

\* both options were selected, then the pre-admission therapy was changed:
\* PCSK9 inhibitor is still selected behind a disabled checkbox
C10_Witness ==
    /\ form.pcsk9 /\ out.pcsk9_disabled
    /\ form.inclis /\ ~out.inclis_disabled

====
